---- MODULE Spec2Model ----
(***************************************************************************)
(* Telemetry simulator of the robot "digital twin" dashboard.              *)
(*                                                                         *)
(* Three variants of the page script exist: main.ts ("ts"), the first      *)
(* script of main.js ("js1", lines 1-643) and the second script of main.js *)
(* ("js3", lines 648-1428, the 1 s / 6 state variant).                     *)
(*                                                                         *)
(* Numbers are fixed point:                                                *)
(*   drive, strafe, turn, voltage, current : 1e-6 (micro) units            *)
(*   power                                 : 1e-3 (milli) watts            *)
(*   normalised wheel values               : 1e-4 units                    *)
(*   Math.random()                         : r/1000 with r in 0..999       *)
(*   time                                  : milliseconds                  *)
(***************************************************************************)
EXTENDS Integers, Sequences, FiniteSets, TLC

VARIABLES
    variant,            \* which script the page runs: "ts", "js1" or "js3"
    seed,               \* seed of the pseudo-random tape (Math.random)
    clock,              \* wall clock read by the last tick (Date.now())
    ticks,              \* number of updateTime calls made so far
    clicks,             \* number of clicks that redirected the writes of js1 ticks
    lastSecondUpdate,   \* main.ts:537
    chartData,          \* chartData[mode].ranges[range].data / .datasets
    secBuffer,          \* main.ts:535
    minBuffer,          \* main.ts:536
    currentMode,        \* main.ts:204
    currentTimeRange,   \* main.ts:205
    chart,              \* what electricalChart displays (labels, datasets, y scale)
    last,               \* the values computed and displayed by the last tick
    caught,             \* exceptions caught by updateTime's catch block
    escaped,            \* exceptions that left updateTime uncaught
    timerOn,            \* the setInterval timer is registered
    secPushes,          \* number of seconds-level push+evict rounds
    minPushes,          \* number of minutes-level push+evict rounds
    hourPushes,         \* number of hours-level push+evict rounds
    lastPushAt,         \* gate clock reading of the last seconds-level push
    lastThrow,          \* where the last tick threw ("none" if it did not)
    pushLog,            \* every value pushed into each series, in order
    isRunning,          \* main.ts:463
    pendingAction,      \* main.ts:429: "none" (null), "start", "stop" or "reset"
    modalShown,         \* the confirmation modal has the class 'show'
    pc,                 \* statements of the running callback still to execute
    torn,               \* a click handler ran while a callback was unfinished
    gen,                \* a call of generateDenseData: its arguments, i, val, data
    btnStart,           \* the Start button: its text and whether it carries the
                        \* class 'stopped' (as in the markup until a closure sets them)
    ran,                \* the latest button handler and the closure it invoked
    seen,               \* the cycle state the ticks observed: index, length of
                        \* the run of ticks observing it, the run before it
    secTotal            \* sum of the seconds-level inputs since the last hours
                        \* value, in units of ScaleOf

vars == <<variant, seed, clock, ticks, clicks, lastSecondUpdate, chartData,
          secBuffer, minBuffer, currentMode, currentTimeRange, chart, last,
          caught, escaped, timerOn, secPushes, minPushes, hourPushes,
          lastPushAt, lastThrow, pushLog, isRunning, pendingAction,
          modalShown, pc, torn, gen, secTotal, seen, btnStart, ran>>

\* The state of the buttons and the confirmation modal
ui == <<isRunning, pendingAction, modalShown, btnStart, ran>>

----------------------------------------------------------------------------
\* Bounds of the model
MaxTicks == 6
MaxThrows == 1
MaxClicks == 1
SimTicks == 2
MidTicks == 306
LongTicks == 3601
MaxLog == 65
StepTicks == 61
UiTicks == 101
ButtonTicks == 4
RotateTicks == 6

----------------------------------------------------------------------------
\* Program constants
SecondsPoints == 60
MinutesPoints == 60
HoursPoints == 25
FanIn == 60
GateMs == 1000
CycleDurationTs == 4000
StateCountTs == 5
CycleDurationJs3 == 3000
StateCountJs3 == 6
BaseVoltage == 24800000
BaseCurrent == 1200000
VelFloorTs == 10000
MagFloorJs == 1000000

Variants == {"ts", "js1", "js3"}
SingleModes == {"power", "voltage", "current"}
Modes == {"power", "voltage", "current", "torque"}
Ranges == {"seconds", "minutes", "hours"}
Wheels == {"FL", "FR", "RL", "RR"}

\* Faulty variant: a timer slower than a state of the cycle lasts
TickPeriodCoarse(v) == IF v = "js3" THEN 1000 ELSE 4200

TickPeriod(v) == IF v = "js3" THEN 1000 ELSE 200

----------------------------------------------------------------------------
\* Arithmetic helpers
Abs(x) == IF x < 0 THEN -x ELSE x
Max2(a, b) == IF a >= b THEN a ELSE b
Min2(a, b) == IF a <= b THEN a ELSE b

RECURSIVE SeqSum(_)
SeqSum(s) == IF s = <<>> THEN 0 ELSE Head(s) + SeqSum(Tail(s))

\* Faulty variant: (2 * Math.random() - 1) * amp
NoiseFullSwing(r, amp) == ((r - 500) * amp) \div 500

\* (Math.random() - 0.5) * amp, amp in the unit of the result
Noise(r, amp) == ((r - 500) * amp) \div 1000

\* a * b of two micro-unit numbers, in milli units
FixMul(a, b) == ((a \div 1000) * (b \div 1000)) \div 1000

\* 1000 * Math.sin(nowMs / 500): Bhaskara's rational approximation
\* (error below 0.002) on the half period of 1571 ms
SinMilli(nowMs) ==
    LET p == nowMs % 3142
        h == IF p < 1571 THEN p ELSE p - 1571
        q == h * (1571 - h)
        mag == (2000 * q) \div ((12340205 - 4 * q) \div 8)
    IN IF p < 1571 THEN mag ELSE -mag

\* The pseudo-random tape: the n-th value Math.random() returns, times 1000
Rand(sd, n) == ((sd + n) * 7919 + (n % 977) * (n % 991)) % 1000

\* parseFloat(val.toFixed(2)) for a value whose 0.01 is q units
ToFixed2(v, q) ==
    IF v >= 0 THEN ((v + q \div 2) \div q) * q
    ELSE -((((-v) + q \div 2) \div q) * q)

----------------------------------------------------------------------------
\* Initial synthetic series

\* Faulty variant: the walk without the clamp
DenseStepNoClamp(val, min, max, r1, r2) ==
    val + Noise(r1, (max - min) \div 10) + Noise(r2, (max - min) \div 20)

\* One round of the loop: random walk, jitter, clamp
DenseStep(val, min, max, r1, r2) ==
    LET v1 == val + Noise(r1, (max - min) \div 10)
        v2 == v1 + Noise(r2, (max - min) \div 20)
    IN Max2(min, Min2(max, v2))

RECURSIVE DenseFrom(_, _, _, _, _, _, _, _)
DenseFrom(i, points, val, min, max, q, sd, off) ==
    IF i >= points THEN <<>>
    ELSE LET v3 == DenseStep(val, min, max, Rand(sd, off + 2 * i), Rand(sd, off + 2 * i + 1))
         IN <<ToFixed2(v3, q)>> \o DenseFrom(i + 1, points, v3, min, max, q, sd, off)

generateDenseData(points, min, max, initialValue, q, sd, off) ==
    DenseFrom(0, points,
              IF initialValue # 0 THEN initialValue ELSE (min + max) \div 2,
              min, max, q, sd, off)

createModeData(valSec, valMin, valHour, q, sd, off) ==
    [seconds |-> generateDenseData(SecondsPoints, valSec[1], valSec[2], valSec[3], q, sd, off),
     minutes |-> generateDenseData(MinutesPoints, valMin[1], valMin[2], valMin[3], q, sd, off + 120),
     hours   |-> generateDenseData(HoursPoints, valHour[1], valHour[2], valHour[3], q, sd, off + 240)]

torqueDatasets(points, fl, fr, rl, rr, sd, off) ==
    [FL |-> generateDenseData(points, fl[1], fl[2], fl[3], 10000, sd, off),
     FR |-> generateDenseData(points, fr[1], fr[2], fr[3], 10000, sd, off + 2 * points),
     RL |-> generateDenseData(points, rl[1], rl[2], rl[3], 10000, sd, off + 4 * points),
     RR |-> generateDenseData(points, rr[1], rr[2], rr[3], 10000, sd, off + 6 * points)]

InitChartData(sd) ==
    [power   |-> createModeData(<<240000, 290000, 264000>>,
                                <<255000, 275000, 260000>>,
                                <<240000, 290000, 265000>>, 10, sd, 0),
     voltage |-> createModeData(<<21500000, 22500000, 22000000>>,
                                <<21800000, 22400000, 22100000>>,
                                <<21000000, 23000000, 21500000>>, 10000, sd, 290),
     current |-> createModeData(<<11000000, 13000000, 11500000>>,
                                <<11500000, 12500000, 12000000>>,
                                <<11000000, 13000000, 11200000>>, 10000, sd, 580),
     torque  |-> [seconds |-> torqueDatasets(SecondsPoints,
                                  <<100000, 200000, 130000>>, <<300000, 400000, 350000>>,
                                  <<-300000, -200000, -280000>>, <<150000, 250000, 180000>>, sd, 870),
                  minutes |-> torqueDatasets(MinutesPoints,
                                  <<120000, 160000, 140000>>, <<320000, 380000, 350000>>,
                                  <<-320000, -250000, -290000>>, <<180000, 230000, 200000>>, sd, 1350),
                  hours   |-> torqueDatasets(HoursPoints,
                                  <<100000, 180000, 150000>>, <<300000, 400000, 320000>>,
                                  <<-350000, -220000, -250000>>, <<150000, 250000, 170000>>, sd, 1830)]]

\* No call of generateDenseData in progress
NoCall == [points |-> 0, min |-> 0, max |-> 0, q |-> 1, i |-> 0, val |-> 0,
           len |-> 0, newest |-> 0, returned |-> TRUE]

\* generateDenseData(points, min, max, initialValue) before its loop
DenseCall(points, min, max, initialValue, q) ==
    [points |-> points, min |-> min, max |-> max, q |-> q, i |-> 0,
     val |-> IF initialValue # 0 THEN initialValue ELSE (min + max) \div 2,
     len |-> 0, newest |-> 0, returned |-> FALSE]

\* Calls the construction of chartData makes: the seconds series of power,
\* the minutes series of current, the hours series of voltage, and the
\* torque series RL (minutes), FL (hours) and RR (seconds)
DenseCalls ==
    {DenseCall(SecondsPoints, 240000, 290000, 264000, 10),
     DenseCall(MinutesPoints, 11500000, 12500000, 12000000, 10000),
     DenseCall(HoursPoints, 21000000, 23000000, 21500000, 10000),
     DenseCall(MinutesPoints, -320000, -250000, -290000, 10000),
     DenseCall(HoursPoints, 100000, 180000, 150000, 10000),
     DenseCall(SecondsPoints, 150000, 250000, 180000, 10000)}

\* Number of Math.random() values consumed by the construction of chartData
InitDraws == 2030

\* Number of labels of a time range (denseLabels, denseMinutesLabels,
\* denseHoursLabels)
LabelsOf(range) ==
    CASE range = "seconds" -> SecondsPoints
      [] range = "minutes" -> MinutesPoints
      [] OTHER -> HoursPoints

\* y-axis band of a mode (chartData[mode].min / .max)
ModeMin(m) == CASE m = "power" -> 0 [] m = "voltage" -> 20000000
                [] m = "current" -> 10000000 [] OTHER -> -500000
ModeMax(m) == CASE m = "power" -> 400000 [] m = "voltage" -> 24000000
                [] m = "current" -> 15000000 [] OTHER -> 500000

----------------------------------------------------------------------------
\* 3. Robot simulation (state machine)

\* Faulty variant: the index one state ahead
CycleIndexAhead(nowMs) == ((nowMs \div CycleDurationTs) + 1) % StateCountTs

CycleIndexTs(nowMs) == (nowMs \div CycleDurationTs) % StateCountTs

\* Faulty variant: the backward setpoint of the six-state variant (-0.6)
MotionSetpointMixed(nowMs) ==
    LET cycleIndex == CycleIndexTs(nowMs)
    IN CASE cycleIndex = 0 -> [drive |-> 0, strafe |-> 0, turn |-> 0]
         [] cycleIndex = 1 -> [drive |-> 800000, strafe |-> 0, turn |-> 0]
         [] cycleIndex = 2 -> [drive |-> -600000, strafe |-> 0, turn |-> 0]
         [] cycleIndex = 3 -> [drive |-> 0, strafe |-> -700000, turn |-> 0]
         [] OTHER -> [drive |-> 0, strafe |-> 0, turn |-> SinMilli(nowMs) * 800]

\* main.ts and the first script of main.js share the table
MotionSetpointTs(nowMs) ==
    LET cycleIndex == CycleIndexTs(nowMs)
    IN CASE cycleIndex = 0 -> [drive |-> 0, strafe |-> 0, turn |-> 0]
         [] cycleIndex = 1 -> [drive |-> 800000, strafe |-> 0, turn |-> 0]
         [] cycleIndex = 2 -> [drive |-> -500000, strafe |-> 0, turn |-> 0]
         [] cycleIndex = 3 -> [drive |-> 0, strafe |-> -700000, turn |-> 0]
         [] OTHER -> [drive |-> 0, strafe |-> 0, turn |-> SinMilli(nowMs) * 800]

CycleIndexJs3(nowMs) == (nowMs \div CycleDurationJs3) % StateCountJs3

\* Faulty variant: ROTATE turns one way for the whole window
MotionSetpointJs3OneWay(nowMs) ==
    LET cycleIndex == CycleIndexJs3(nowMs)
    IN CASE cycleIndex = 0 -> [drive |-> 0, strafe |-> 0, turn |-> 0]
         [] cycleIndex = 1 -> [drive |-> 800000, strafe |-> 0, turn |-> 0]
         [] cycleIndex = 2 -> [drive |-> -600000, strafe |-> 0, turn |-> 0]
         [] cycleIndex = 3 -> [drive |-> 0, strafe |-> -800000, turn |-> 0]
         [] cycleIndex = 4 -> [drive |-> 0, strafe |-> 800000, turn |-> 0]
         [] OTHER -> [drive |-> 0, strafe |-> 0, turn |-> 900000]

MotionSetpointJs3(nowMs) ==
    LET cycleIndex == CycleIndexJs3(nowMs)
    IN CASE cycleIndex = 0 -> [drive |-> 0, strafe |-> 0, turn |-> 0]
         [] cycleIndex = 1 -> [drive |-> 800000, strafe |-> 0, turn |-> 0]
         [] cycleIndex = 2 -> [drive |-> -600000, strafe |-> 0, turn |-> 0]
         [] cycleIndex = 3 -> [drive |-> 0, strafe |-> -800000, turn |-> 0]
         [] cycleIndex = 4 -> [drive |-> 0, strafe |-> 800000, turn |-> 0]
         [] OTHER -> [drive |-> 0, strafe |-> 0,
                      turn |-> IF (nowMs % 3000) < 1500 THEN 900000 ELSE -900000]

\* drive += (Math.random() - 0.5) * amp, and the same for strafe and turn
AddNoise(set, rv, amp) ==
    [drive  |-> set.drive + Noise(rv.nd, amp),
     strafe |-> set.strafe + Noise(rv.ns, amp),
     turn   |-> set.turn + Noise(rv.nt, amp)]

----------------------------------------------------------------------------
\* 4. Electrical simulation

\* Faulty variant: the power computed from the nominal voltage
ElectricalTsNominalPower(cmd, rv) ==
    LET voltageLoad == ((Abs(cmd.drive) + Abs(cmd.strafe)) * 3) \div 2
        simVoltage == BaseVoltage - voltageLoad + Noise(rv.nv, 100000)
        currentLoad == (Abs(cmd.drive) + Abs(cmd.strafe) + Abs(cmd.turn)) * 20
        simCurrent == BaseCurrent + currentLoad + Noise(rv.ni, 500000)
    IN [voltage |-> simVoltage, current |-> simCurrent,
        power |-> FixMul(BaseVoltage, simCurrent)]

ElectricalTs(cmd, rv) ==
    LET voltageLoad == ((Abs(cmd.drive) + Abs(cmd.strafe)) * 3) \div 2
        simVoltage == BaseVoltage - voltageLoad + Noise(rv.nv, 100000)
        currentLoad == (Abs(cmd.drive) + Abs(cmd.strafe) + Abs(cmd.turn)) * 20
        simCurrent == BaseCurrent + currentLoad + Noise(rv.ni, 500000)
    IN [voltage |-> simVoltage, current |-> simCurrent,
        power |-> FixMul(simVoltage, simCurrent)]

ElectricalJs3(cmd, rv) ==
    LET voltage == 19000000 + 92 * 62000 + Noise(rv.nv, 100000)
        totalDrive == Abs(cmd.drive) + Abs(cmd.strafe) + Abs(cmd.turn)
        baseCurrent == IF totalDrive > 100000 THEN 5000000 + totalDrive * 20
                       ELSE 1000000
        current == baseCurrent + Noise(rv.ni, 1500000)
    IN [voltage |-> voltage, current |-> current,
        power |-> FixMul(voltage, current)]

----------------------------------------------------------------------------
\* 6. Kinematics and normalisation

Max5(a, b, c, d, e) == Max2(Max2(Max2(a, b), Max2(c, d)), e)

\* Faulty variant: the floor alone
NormFloorOnly(a, b, c, d, floor) == floor

\* Math.max(|w1|, |w2|, |w3|, |w4|, floor): what the four raw values are divided by
NormDivisor(a, b, c, d, floor) == Max5(Abs(a), Abs(b), Abs(c), Abs(d), floor)

\* w = (-+cos_a*vx -+ sin_a*vy + L*vtheta) / r_wheel in 1e-3 units; every
\* command is a multiple of 50 micro units, so the division by 50 is exact
KinematicsTs(cmd) ==
    LET vx == cmd.strafe \div 50
        vy == cmd.drive \div 50
        vtheta == cmd.turn \div 50
        w1_FR == (-7071 * vx + 7071 * vy + 2080 * vtheta) \div 12000
        w2_FL == (-7071 * vx - 7071 * vy + 2080 * vtheta) \div 12000
        w3_RL == (7071 * vx - 7071 * vy + 2080 * vtheta) \div 12000
        w4_RR == (7071 * vx + 7071 * vy + 2080 * vtheta) \div 12000
        maxVel == NormDivisor(w1_FR, w2_FL, w3_RL, w4_RR, VelFloorTs)
    IN [FL |-> (w2_FL * 10000) \div maxVel, FR |-> (w1_FR * 10000) \div maxVel,
        RL |-> (w3_RL * 10000) \div maxVel, RR |-> (w4_RR * 10000) \div maxVel]

KinematicsJs(cmd) ==
    LET fl == cmd.drive + cmd.strafe + cmd.turn
        fr == cmd.drive - cmd.strafe - cmd.turn
        rl == cmd.drive - cmd.strafe + cmd.turn
        rr == cmd.drive + cmd.strafe - cmd.turn
        maxM == NormDivisor(fl, fr, rl, rr, MagFloorJs)
    IN [FL |-> ((fl \div 50) * 10000) \div (maxM \div 50),
        FR |-> ((fr \div 50) * 10000) \div (maxM \div 50),
        RL |-> ((rl \div 50) * 10000) \div (maxM \div 50),
        RR |-> ((rr \div 50) * 10000) \div (maxM \div 50)]

\* Faulty variant: the noise term added to a wheel at rest as well
setWheelAlwaysNoise(val, r) == (Abs(val) * 4000) \div 10000 + (r * 50) \div 1000

\* setWheel(id, val) of main.ts and the first script of main.js: the RPM
\* shown for a wheel, Math.floor(abs * 4000) plus Math.floor(Math.random() * 50)
\* when abs > 0
setWheel(val, r) ==
    LET abs == Abs(val)
    IN (abs * 4000) \div 10000 + (IF abs > 0 THEN (r * 50) \div 1000 ELSE 0)

\* updateWheel of the second script of main.js
updateWheel(val, r) ==
    LET absVal == Abs(val)
    IN (absVal * 5000) \div 10000 + (IF absVal > 1000 THEN (r * 20) \div 1000 ELSE 0)

\* rpm1..rpm4: the four calls in the order FL, FR, RL, RR
WheelRpmTs(wheels, nw) ==
    [FL |-> setWheel(wheels.FL, nw[1]), FR |-> setWheel(wheels.FR, nw[2]),
     RL |-> setWheel(wheels.RL, nw[3]), RR |-> setWheel(wheels.RR, nw[4])]

WheelRpmJs3(wheels, nw) ==
    [FL |-> updateWheel(wheels.FL, nw[1]), FR |-> updateWheel(wheels.FR, nw[2]),
     RL |-> updateWheel(wheels.RL, nw[3]), RR |-> updateWheel(wheels.RR, nw[4])]

\* Math.floor((rpm1 + rpm2 + rpm3 + rpm4) / 4)
AvgRpm(rpm) == (rpm.FL + rpm.FR + rpm.RL + rpm.RR) \div 4

\* Faulty variant: the robot moves only while the program is started
SimulateTsWhenRunning(nowMs, rv) ==
    LET set == IF isRunning THEN MotionSetpointTs(nowMs)
               ELSE [drive |-> 0, strafe |-> 0, turn |-> 0]
        cmd == AddNoise(set, rv, 50000)
        el == ElectricalTs(cmd, rv)
    IN [valid |-> TRUE, nowMs |-> nowMs, cycleIndex |-> CycleIndexTs(nowMs),
        set |-> set, cmd |-> cmd, voltage |-> el.voltage,
        current |-> el.current, power |-> el.power, wheels |-> KinematicsTs(cmd),
        rpm |-> WheelRpmTs(KinematicsTs(cmd), rv.nw),
        avgRPM |-> AvgRpm(WheelRpmTs(KinematicsTs(cmd), rv.nw))]

\* Steps 3 to 6 of one tick: everything the tick computes from the clock
\* reading and the random draws
SimulateTs(nowMs, rv) ==
    LET set == MotionSetpointTs(nowMs)
        cmd == AddNoise(set, rv, 50000)
        el == ElectricalTs(cmd, rv)
    IN [valid |-> TRUE, nowMs |-> nowMs, cycleIndex |-> CycleIndexTs(nowMs),
        set |-> set, cmd |-> cmd, voltage |-> el.voltage,
        current |-> el.current, power |-> el.power, wheels |-> KinematicsTs(cmd),
        rpm |-> WheelRpmTs(KinematicsTs(cmd), rv.nw),
        avgRPM |-> AvgRpm(WheelRpmTs(KinematicsTs(cmd), rv.nw))]

SimulateJs1(nowMs, rv) ==
    LET set == MotionSetpointTs(nowMs)
        cmd == AddNoise(set, rv, 50000)
        el == ElectricalTs(cmd, rv)
    IN [valid |-> TRUE, nowMs |-> nowMs, cycleIndex |-> CycleIndexTs(nowMs),
        set |-> set, cmd |-> cmd, voltage |-> el.voltage,
        current |-> el.current, power |-> el.power, wheels |-> KinematicsJs(cmd),
        rpm |-> WheelRpmTs(KinematicsJs(cmd), rv.nw),
        avgRPM |-> AvgRpm(WheelRpmTs(KinematicsJs(cmd), rv.nw))]

SimulateJs3(nowMs, rv) ==
    LET set == MotionSetpointJs3(nowMs)
        cmd == AddNoise(set, rv, 100000)
        el == ElectricalJs3(cmd, rv)
    IN [valid |-> TRUE, nowMs |-> nowMs, cycleIndex |-> CycleIndexJs3(nowMs),
        set |-> set, cmd |-> cmd, voltage |-> el.voltage,
        current |-> el.current, power |-> el.power, wheels |-> KinematicsJs(cmd),
        rpm |-> WheelRpmJs3(KinematicsJs(cmd), rv.nw),
        avgRPM |-> AvgRpm(WheelRpmJs3(KinematicsJs(cmd), rv.nw))]

\* The handler that ran and the closure it called ("none": it called none)
Ran(handler, action) == [by |-> handler, action |-> action]

\* No tick has observed the cycle yet
NotSeen == [index |-> 0, run |-> 0, before |-> 0, beforeRun |-> 0, changes |-> 0]

\* The record of the states observed, after a tick computed cycleIndex: the
\* run of the state goes on, or a new run starts
Observed(s, cycleIndex) ==
    IF s.run = 0
    THEN [s EXCEPT !.index = cycleIndex, !.run = 1]
    ELSE IF cycleIndex = s.index
         THEN [s EXCEPT !.run = s.run + 1]
         ELSE [index |-> cycleIndex, run |-> 1, before |-> s.index,
               beforeRun |-> s.run, changes |-> s.changes + 1]

NoTick ==
    [valid |-> FALSE, nowMs |-> 0, cycleIndex |-> 0,
     set |-> [drive |-> 0, strafe |-> 0, turn |-> 0],
     cmd |-> [drive |-> 0, strafe |-> 0, turn |-> 0],
     voltage |-> 0, current |-> 0, power |-> 0,
     wheels |-> [FL |-> 0, FR |-> 0, RL |-> 0, RR |-> 0],
     rpm |-> [FL |-> 0, FR |-> 0, RL |-> 0, RR |-> 0], avgRPM |-> 0]

----------------------------------------------------------------------------
\* 7. Graph real-time update

\* Faulty variant: pop() in place of shift()
PushEvictNewest(dataArr, value) == SubSeq(Append(dataArr, value), 1, Len(dataArr))

\* dataArr.push(value); dataArr.shift()
PushEvict(dataArr, value) == Tail(Append(dataArr, value))

\* Faulty variant: the push without the shift
updateModeDataNoShift(cd, mode, range, value) ==
    IF mode \notin DOMAIN cd \/ range \notin DOMAIN cd[mode] THEN cd
    ELSE IF mode = "torque" THEN cd
    ELSE [cd EXCEPT ![mode][range] = Append(@, value)]

\* updateModeData of main.ts: nothing happens for a mode or range that does
\* not exist or for the torque mode
updateModeData(cd, mode, range, value) ==
    IF mode \notin DOMAIN cd \/ range \notin DOMAIN cd[mode] THEN cd
    ELSE IF mode = "torque" THEN cd
    ELSE [cd EXCEPT ![mode][range] = PushEvict(@, value)]

\* Faulty variant: the sum divided by one less than the fan-in
AvgOffByOne(buf) == SeqSum(buf) \div (FanIn - 1)

\* reduce((a, b) => a + b, 0) / 60
Avg60(buf) == SeqSum(buf) \div FanIn

EmptyBuffer == [power |-> <<>>, voltage |-> <<>>, current |-> <<>>]

\* Faulty variant: > in place of >=
FiresLate(buf) == Len(buf.power) > FanIn

\* if (buffer.power.length >= 60)
Fires(buf) == Len(buf.power) >= FanIn

\* Faulty variant: a gate of half a second
GateHalfSecond(nowMs, lsu) == nowMs - lsu >= GateMs \div 2

\* if (Date.now() - lastSecondUpdate >= 1000)
GateOpen(nowMs, lsu) == nowMs - lsu >= GateMs

\* Faulty variant: the tick writes the displayed series only, as the first
\* script of main.js does
GraphUpdateTsDisplayed(cd, sb, mb, sim) ==
    LET newVal == CASE currentMode = "power" -> sim.power
                    [] currentMode = "voltage" -> sim.voltage
                    [] OTHER -> sim.current
    IN [cd |-> updateModeData(cd, currentMode, currentTimeRange, newVal),
        sb |-> [power   |-> Append(sb.power, sim.power),
                voltage |-> Append(sb.voltage, sim.voltage),
                current |-> Append(sb.current, sim.current)],
        mb |-> mb, minute |-> FALSE, hour |-> FALSE,
        avgMin |-> [m \in SingleModes |-> 0], avgHour |-> [m \in SingleModes |-> 0]]

\* Faulty variant: the test for the hours made on minBuffer as the tick found it
GraphUpdateTsHoursLate(cd, sb, mb, sim) ==
    LET cdA == updateModeData(updateModeData(updateModeData(cd,
                   "power", "seconds", sim.power),
                   "voltage", "seconds", sim.voltage),
                   "current", "seconds", sim.current)
        sbA == [power   |-> Append(sb.power, sim.power),
                voltage |-> Append(sb.voltage, sim.voltage),
                current |-> Append(sb.current, sim.current)]
        minute == Fires(sbA)
        avgMin == [m \in SingleModes |-> Avg60(sbA[m])]
        cdB == IF minute
               THEN updateModeData(updateModeData(updateModeData(cdA,
                        "power", "minutes", avgMin["power"]),
                        "voltage", "minutes", avgMin["voltage"]),
                        "current", "minutes", avgMin["current"])
               ELSE cdA
        mbB == IF minute
               THEN [power   |-> Append(mb.power, avgMin["power"]),
                     voltage |-> Append(mb.voltage, avgMin["voltage"]),
                     current |-> Append(mb.current, avgMin["current"])]
               ELSE mb
        sbB == IF minute THEN EmptyBuffer ELSE sbA
        hour == Fires(mb)
        avgHour == [m \in SingleModes |-> Avg60(mb[m])]
        cdC == IF hour
               THEN updateModeData(updateModeData(updateModeData(cdB,
                        "power", "hours", avgHour["power"]),
                        "voltage", "hours", avgHour["voltage"]),
                        "current", "hours", avgHour["current"])
               ELSE cdB
        mbC == IF hour THEN EmptyBuffer ELSE mbB
    IN [cd |-> cdC, sb |-> sbB, mb |-> mbC, minute |-> minute, hour |-> hour,
        avgMin |-> avgMin, avgHour |-> avgHour]

\* Faulty variant: the statements after the one that threw are executed
ReachesGateAnyway(thr) == TRUE

\* A tick gets to the 1-second gate when no statement before it threw: the
\* throw jumps to the catch block
ReachesGate(thr) == thr # "dom"

\* The body of the 1-second gate of main.ts (A, B and C)
GraphUpdateTs(cd, sb, mb, sim) ==
    LET cdA == updateModeData(updateModeData(updateModeData(cd,
                   "power", "seconds", sim.power),
                   "voltage", "seconds", sim.voltage),
                   "current", "seconds", sim.current)
        sbA == [power   |-> Append(sb.power, sim.power),
                voltage |-> Append(sb.voltage, sim.voltage),
                current |-> Append(sb.current, sim.current)]
        minute == Fires(sbA)
        avgMin == [m \in SingleModes |-> Avg60(sbA[m])]
        cdB == IF minute
               THEN updateModeData(updateModeData(updateModeData(cdA,
                        "power", "minutes", avgMin["power"]),
                        "voltage", "minutes", avgMin["voltage"]),
                        "current", "minutes", avgMin["current"])
               ELSE cdA
        mbB == IF minute
               THEN [power   |-> Append(mb.power, avgMin["power"]),
                     voltage |-> Append(mb.voltage, avgMin["voltage"]),
                     current |-> Append(mb.current, avgMin["current"])]
               ELSE mb
        sbB == IF minute THEN EmptyBuffer ELSE sbA
        hour == Fires(mbB)
        avgHour == [m \in SingleModes |-> Avg60(mbB[m])]
        cdC == IF hour
               THEN updateModeData(updateModeData(updateModeData(cdB,
                        "power", "hours", avgHour["power"]),
                        "voltage", "hours", avgHour["voltage"]),
                        "current", "hours", avgHour["current"])
               ELSE cdB
        mbC == IF hour THEN EmptyBuffer ELSE mbB
    IN [cd |-> cdC, sb |-> sbB, mb |-> mbC, minute |-> minute, hour |-> hour,
        avgMin |-> avgMin, avgHour |-> avgHour]

\* The sample of metric m among the values a tick computed
SampleOf(sim, m) ==
    CASE m = "power" -> sim.power [] m = "voltage" -> sim.voltage [] OTHER -> sim.current

\* Unit of the running total: milliwatt, millivolt, milliampere
ScaleOf(m) == IF m = "power" THEN 1 ELSE 1000

\* The running total with the sample of a tick added
Totalled(total, sim) ==
    [m \in SingleModes |-> total[m] + SampleOf(sim, m) \div ScaleOf(m)]

\* The record of pushes: value v went into series (m, r).  The first MaxLog
\* pushes into each series are recorded.
Logged(log, m, r, v) ==
    IF Len(log[m][r]) >= MaxLog THEN log ELSE [log EXCEPT ![m][r] = Append(@, v)]

EmptyLog == [m \in SingleModes |-> [r \in Ranges |-> <<>>]]

----------------------------------------------------------------------------
\* Inputs

Epoch == 9 * 20000

Seeds == {3, 11}
StartTimes == {Epoch + 3000, Epoch + 15000}
Lags == {0, 1}
DrawChoices ==
    {[nd |-> 0, ns |-> 0, nt |-> 0, nv |-> 0, ni |-> 0, nw |-> <<0, 0, 0, 0>>],
     [nd |-> 999, ns |-> 0, nt |-> 999, nv |-> 999, ni |-> 999,
      nw |-> <<999, 500, 20, 999>>]}

SimTimes ==
    {Epoch + CycleDurationTs * k : k \in 0..5}
    \cup {Epoch + CycleDurationJs3 * k : k \in 0..6}
    \cup {Epoch + 2100, Epoch + 6100, Epoch + 10100, Epoch + 14100,
          Epoch + 16300, Epoch + 16785, Epoch + 17900, Epoch + 18600,
          Epoch + 15800}
\* The extreme draws on every axis and sample, and the draws of no noise
SimDraws ==
    {[nd |-> a, ns |-> b, nt |-> c, nv |-> d, ni |-> e, nw |-> <<a, d, e, b>>] :
        a \in {0, 999}, b \in {0, 999}, c \in {0, 999}, d \in {0, 999}, e \in {0, 999}}
    \cup {[nd |-> 500, ns |-> 500, nt |-> 500, nv |-> 500, ni |-> 500,
           nw |-> <<999, 999, 999, 999>>]}

\* The two values Math.random() returns in one round of generateDenseData
DenseDraws == {<<0, 0>>, <<999, 999>>, <<0, 999>>}

\* The draws of tick n when Math.random() follows the tape
TapeDraws(sd, n) ==
    [nd |-> Rand(sd, InitDraws + 5 * n), ns |-> Rand(sd, InitDraws + 5 * n + 1),
     nt |-> Rand(sd, InitDraws + 5 * n + 2), nv |-> Rand(sd, InitDraws + 5 * n + 3),
     ni |-> Rand(sd, InitDraws + 5 * n + 4),
     nw |-> <<Rand(sd + 1, InitDraws + 4 * n), Rand(sd + 1, InitDraws + 4 * n + 1),
              Rand(sd + 1, InitDraws + 4 * n + 2), Rand(sd + 1, InitDraws + 4 * n + 3)>>]

----------------------------------------------------------------------------
\* State after the variables of the DOMContentLoaded handler are set up,
\* before its last statement (the initial call of updateTime)

PageLoaded(vs, sds, times) ==
    /\ variant \in vs
    /\ seed \in sds
    /\ clock \in times
    /\ ticks = 0
    /\ clicks = 0
    /\ lastSecondUpdate = 0
    /\ chartData = InitChartData(seed)
    /\ secBuffer = EmptyBuffer
    /\ minBuffer = EmptyBuffer
    /\ currentMode = "power"
    /\ currentTimeRange = "seconds"
    /\ chart = [mode |-> "power", range |-> "seconds",
                labels |-> LabelsOf("seconds"),
                min |-> ModeMin("power"), max |-> ModeMax("power")]
    /\ last = NoTick
    /\ caught = 0
    /\ escaped = 0
    /\ timerOn = TRUE
    /\ secPushes = 0
    /\ minPushes = 0
    /\ hourPushes = 0
    /\ lastPushAt = 0
    /\ lastThrow = "none"
    /\ pushLog = EmptyLog
    /\ isRunning = FALSE
    /\ pendingAction = "none"
    /\ modalShown = FALSE
    /\ pc = <<>>
    /\ torn = FALSE
    /\ secTotal = [m \in SingleModes |-> 0]
    /\ seen = NotSeen
    /\ btnStart = [text |-> "markup", stopped |-> "markup"]
    /\ ran = Ran("none", "none")

InitWith(vs, sds, times) ==
    /\ PageLoaded(vs, sds, times)
    /\ gen = NoCall

Init == InitWith(Variants, {3}, StartTimes)

\* The clock reading of the next tick: the initial call runs at once, every
\* later one a timer period after the previous
TickTime(period) == clock + (IF ticks = 0 THEN 0 ELSE period)

\* The period of a timer the browser throttles (page in a background tab)
ThrottledPeriod == 5 * TickPeriod("ts")

----------------------------------------------------------------------------
\* updateTime of main.ts.  lag is the time between the two Date.now() reads
\* of the gate; thr is the place where a collaborator (DOM, chart) throws.
UpdateTimeTs(period, lag, rv, thr, bound) ==
    /\ pc = <<>>
    /\ UNCHANGED <<ui, pc, torn, gen>>
    /\ variant = "ts"
    /\ timerOn
    /\ ticks < bound
    /\ LET t == TickTime(period)
           gate == GateOpen(t, lastSecondUpdate)
           sim == SimulateTs(t, rv)
           g == GraphUpdateTs(chartData, secBuffer, minBuffer, sim)
           logA == Logged(Logged(Logged(pushLog, "power", "seconds", sim.power),
                       "voltage", "seconds", sim.voltage),
                       "current", "seconds", sim.current)
           logB == IF g.minute
                   THEN Logged(Logged(Logged(logA, "power", "minutes", g.avgMin["power"]),
                            "voltage", "minutes", g.avgMin["voltage"]),
                            "current", "minutes", g.avgMin["current"])
                   ELSE logA
           logC == IF g.hour
                   THEN Logged(Logged(Logged(logB, "power", "hours", g.avgHour["power"]),
                            "voltage", "hours", g.avgHour["voltage"]),
                            "current", "hours", g.avgHour["current"])
                   ELSE logB
       IN /\ thr \in {"none", "dom", "chartGate", "chartEnd"}
          /\ thr # "none" => caught + escaped < MaxThrows
          /\ thr = "chartGate" => gate
          /\ lag # 0 => (gate /\ thr # "dom")
          /\ clock' = t
          /\ ticks' = ticks + 1
          /\ lastThrow' = thr
          /\ caught' = IF thr = "none" THEN caught ELSE caught + 1
          /\ IF ~ReachesGate(thr)
             THEN UNCHANGED <<last, lastSecondUpdate, chartData, secBuffer,
                              minBuffer, secPushes, minPushes, hourPushes,
                              lastPushAt, pushLog, secTotal, seen>>
             ELSE /\ last' = sim
                  /\ seen' = Observed(seen, sim.cycleIndex)
                  /\ IF gate
                     THEN /\ lastSecondUpdate' = t + lag
                          /\ chartData' = g.cd
                          /\ secBuffer' = g.sb
                          /\ minBuffer' = g.mb
                          /\ secPushes' = secPushes + 1
                          /\ minPushes' = IF g.minute THEN minPushes + 1 ELSE minPushes
                          /\ hourPushes' = IF g.hour THEN hourPushes + 1 ELSE hourPushes
                          /\ lastPushAt' = t
                          /\ pushLog' = logC
                          /\ secTotal' = IF g.hour THEN [m \in SingleModes |-> 0]
                                         ELSE Totalled(secTotal, sim)
                     ELSE UNCHANGED <<lastSecondUpdate, chartData, secBuffer,
                                      minBuffer, secPushes, minPushes,
                                      hourPushes, lastPushAt, pushLog, secTotal>>
    /\ UNCHANGED <<variant, seed, clicks, currentMode, currentTimeRange, chart,
                   escaped, timerOn>>

\* Faulty variant: the else-if branches are missing
NewValPowerOnly(mode, sim) == IF mode = "power" THEN sim.power ELSE 0

\* The new data point of the first script of main.js (let newVal = 0; ...)
NewVal(mode, sim) ==
    CASE mode = "power" -> sim.power
      [] mode = "voltage" -> sim.voltage
      [] mode = "current" -> sim.current
      [] OTHER -> 0

\* updateTime of the first script of main.js
UpdateTimeJs1(period, rv, thr, bound) ==
    /\ pc = <<>>
    /\ UNCHANGED <<ui, pc, torn, gen, secTotal>>
    /\ variant = "js1"
    /\ timerOn
    /\ ticks < bound
    /\ LET t == TickTime(period)
           sim == SimulateJs1(t, rv)
           newVal == NewVal(currentMode, sim)
           single == chart.mode # "torque"
       IN /\ thr \in {"none", "dom", "chart"}
          /\ thr # "none" => caught + escaped < MaxThrows
          /\ thr = "chart" => single
          /\ clock' = t
          /\ ticks' = ticks + 1
          /\ lastThrow' = thr
          /\ caught' = IF thr = "none" THEN caught ELSE caught + 1
          /\ IF thr = "dom"
             THEN UNCHANGED <<last, chartData, pushLog, seen>>
             ELSE /\ last' = sim
                  /\ seen' = Observed(seen, sim.cycleIndex)
                  /\ IF single
                     THEN /\ chartData' = [chartData EXCEPT ![chart.mode][chart.range] =
                                              PushEvict(@, newVal)]
                          /\ pushLog' = Logged(pushLog, chart.mode, chart.range, newVal)
                     ELSE UNCHANGED <<chartData, pushLog>>
    /\ UNCHANGED <<variant, seed, clicks, lastSecondUpdate, secBuffer, minBuffer,
                   currentMode, currentTimeRange, chart, escaped, timerOn,
                   secPushes, minPushes, hourPushes, lastPushAt>>

\* updateTime of the second script of main.js: no try/catch
UpdateTimeJs3(period, rv, thr, bound) ==
    /\ pc = <<>>
    /\ UNCHANGED <<ui, pc, torn, gen, secTotal>>
    /\ variant = "js3"
    /\ timerOn
    /\ ticks < bound
    /\ thr \in {"none", "dom"}
    /\ thr # "none" => caught + escaped < MaxThrows
    /\ clock' = TickTime(period)
    /\ ticks' = ticks + 1
    /\ lastThrow' = thr
    /\ escaped' = IF thr = "none" THEN escaped ELSE escaped + 1
    /\ last' = IF thr = "none" THEN SimulateJs3(TickTime(period), rv) ELSE last
    /\ seen' = IF thr = "none" THEN Observed(seen, CycleIndexJs3(TickTime(period)))
               ELSE seen
    /\ UNCHANGED <<variant, seed, clicks, lastSecondUpdate, chartData, secBuffer,
                   minBuffer, currentMode, currentTimeRange, chart, caught,
                   timerOn, secPushes, minPushes, hourPushes, lastPushAt, pushLog>>

\* Every series and buffer is as a finished callback leaves it: the series
\* at capacity, the three metrics pushed the same number of times, and the
\* buffers of main.ts holding the pushes since their last reset
Settled ==
    \A m \in SingleModes :
        /\ Len(chartData[m]["seconds"]) = SecondsPoints
        /\ Len(chartData[m]["minutes"]) = MinutesPoints
        /\ Len(chartData[m]["hours"]) = HoursPoints
        /\ variant = "ts" =>
               /\ Len(pushLog[m]["seconds"]) = Min2(secPushes, MaxLog)
               /\ Len(pushLog[m]["minutes"]) = Min2(minPushes, MaxLog)
               /\ Len(pushLog[m]["hours"]) = Min2(hourPushes, MaxLog)
               /\ Len(secBuffer[m]) = secPushes % FanIn
               /\ Len(minBuffer[m]) = minPushes % FanIn

\* Faulty variant: a handler may start while another callback is running
Preempting == TRUE

\* updateTime and the click handlers are synchronous functions registered
\* with setInterval and addEventListener: a queued callback starts only when
\* the running one has returned
CallStackEmpty == pc = <<>>

\* What every click handler does to the model's bookkeeping
HandlerRuns ==
    /\ CallStackEmpty
    /\ torn' = (torn \/ ~Settled)
    /\ UNCHANGED pc

\* The arrays the datasets of getDatasetForMode(mode, range) refer to: the
\* four wheels of the torque mode, the one series of every other
getDatasetForMode(cd, mode, range) ==
    IF mode = "torque"
    THEN <<cd[mode][range].FL, cd[mode][range].FR, cd[mode][range].RL, cd[mode][range].RR>>
    ELSE <<cd[mode][range]>>

\* Faulty variant: the series and the labels change, the y axis stays
updateChartKeepsScale(mode, range) ==
    [mode |-> mode, range |-> range, labels |-> LabelsOf(range),
     min |-> chart.min, max |-> chart.max]

\* updateChart(): the chart shows the series of (currentMode, currentTimeRange);
\* its datasets refer to the arrays of chartData (mode, range), labels is the
\* number of labels
updateChart(mode, range) ==
    [mode |-> mode, range |-> range, labels |-> LabelsOf(range),
     min |-> ModeMin(mode), max |-> ModeMax(mode)]

\* Click on a button of graphModeControls.  In js1 the selection decides which
\* series the ticks write, so the number of clicks is bounded there.
ModeClick(m) ==
    /\ HandlerRuns
    /\ UNCHANGED <<ui, gen, secTotal, seen>>
    /\ ticks > 0
    /\ variant = "js1" => clicks < MaxClicks
    /\ clicks' = IF variant = "js1" THEN clicks + 1 ELSE clicks
    /\ currentMode' = m
    /\ chart' = updateChart(m, currentTimeRange)
    /\ UNCHANGED <<variant, seed, clock, ticks, lastSecondUpdate, chartData,
                   secBuffer, minBuffer, currentTimeRange, last, caught, escaped,
                   timerOn, secPushes, minPushes, hourPushes, lastPushAt,
                   lastThrow, pushLog>>

\* Click on a button of timeRangeControls
TimeRangeClick(r) ==
    /\ HandlerRuns
    /\ UNCHANGED <<ui, gen, secTotal, seen>>
    /\ ticks > 0
    /\ variant = "js1" => clicks < MaxClicks
    /\ clicks' = IF variant = "js1" THEN clicks + 1 ELSE clicks
    /\ currentTimeRange' = r
    /\ chart' = updateChart(currentMode, r)
    /\ UNCHANGED <<variant, seed, clock, ticks, lastSecondUpdate, chartData,
                   secBuffer, minBuffer, currentMode, last, caught, escaped,
                   timerOn, secPushes, minPushes, hourPushes, lastPushAt,
                   lastThrow, pushLog>>

\* Faulty variant: a prompt opened over another keeps the first action
showConfirmationFirstWins(action) ==
    /\ pendingAction' = IF pendingAction = "none" THEN action ELSE pendingAction
    /\ modalShown' = TRUE

\* showConfirmation(title, message, action); the modal, its title and its
\* message are elements of the page
showConfirmation(action) ==
    /\ pendingAction' = action
    /\ modalShown' = TRUE

\* Faulty variant: the modal is hidden and the action stays pending
closeConfirmationKeepsAction ==
    /\ modalShown' = FALSE
    /\ UNCHANGED pendingAction

\* closeConfirmation()
closeConfirmation ==
    /\ modalShown' = FALSE
    /\ pendingAction' = "none"

\* What the buttons leave alone
ButtonFrame ==
    UNCHANGED <<variant, seed, clock, ticks, clicks, lastSecondUpdate, chartData,
                secBuffer, minBuffer, currentMode, currentTimeRange, chart, last,
                caught, escaped, timerOn, secPushes, minPushes, hourPushes,
                lastPushAt, lastThrow, pushLog, gen, secTotal, seen>>

\* The closure of a Stop prompt (main.ts:471-476)
StopProgram ==
    /\ isRunning' = FALSE
    /\ btnStart' = [text |-> "Start Program", stopped |-> "no"]

\* The closure of a Start prompt (main.ts:482-487)
StartProgram ==
    /\ isRunning' = TRUE
    /\ btnStart' = [text |-> "Stop Program", stopped |-> "yes"]

\* The closure of a Reset prompt (main.ts:498-501): it writes to the console
DigitalTwinReset ==
    UNCHANGED <<isRunning, btnStart>>

\* Faulty variant: the prompt is always the one that starts the program
StartClickAlwaysStart ==
    /\ HandlerRuns
    /\ showConfirmation("start")
    /\ ran' = Ran("start", "none")
    /\ UNCHANGED <<isRunning, btnStart>>
    /\ ButtonFrame

\* Click on btnStart
StartClick ==
    /\ HandlerRuns
    /\ showConfirmation(IF isRunning THEN "stop" ELSE "start")
    /\ ran' = Ran("start", "none")
    /\ UNCHANGED <<isRunning, btnStart>>
    /\ ButtonFrame

\* Click on btnReset
ResetClick ==
    /\ HandlerRuns
    /\ showConfirmation("reset")
    /\ ran' = Ran("reset", "none")
    /\ UNCHANGED <<isRunning, btnStart>>
    /\ ButtonFrame

\* Click on btnCancel
CancelClick ==
    /\ HandlerRuns
    /\ closeConfirmation
    /\ ran' = Ran("cancel", "none")
    /\ UNCHANGED <<isRunning, btnStart>>
    /\ ButtonFrame

\* Click on btnConfirm: runs the pending action, if any, then closes the modal
ConfirmClick ==
    /\ HandlerRuns
    /\ ran' = Ran("confirm", pendingAction)
    /\ CASE pendingAction = "start" -> StartProgram
         [] pendingAction = "stop" -> StopProgram
         [] pendingAction = "reset" -> DigitalTwinReset
         [] OTHER -> UNCHANGED <<isRunning, btnStart>>
    /\ closeConfirmation
    /\ ButtonFrame

----------------------------------------------------------------------------
\* updateTime of main.ts statement by statement: pc lists the statements of
\* the 1-second gate that remain to be executed

Stmt(op, mode, range, value) == [op |-> op, mode |-> mode, range |-> range, value |-> value]

\* updateModeData(mode, range, value): dataArr.push(value); dataArr.shift()
UpdateStmts(mode, range, value) ==
    <<Stmt("push", mode, range, value), Stmt("shift", mode, range, 0)>>

\* A. Update SECONDS and the collection for the minutes, then the two tests
GateStmts(sim) ==
    UpdateStmts("power", "seconds", sim.power)
    \o UpdateStmts("voltage", "seconds", sim.voltage)
    \o UpdateStmts("current", "seconds", sim.current)
    \o <<Stmt("collect", "power", "seconds", sim.power),
         Stmt("collect", "voltage", "seconds", sim.voltage),
         Stmt("collect", "current", "seconds", sim.current),
         Stmt("ifMinutes", "power", "minutes", 0),
         Stmt("ifHours", "power", "hours", 0)>>

\* B. Update MINUTES: the body of the test on secBuffer
MinuteStmts(sb) ==
    UpdateStmts("power", "minutes", Avg60(sb.power))
    \o UpdateStmts("voltage", "minutes", Avg60(sb.voltage))
    \o UpdateStmts("current", "minutes", Avg60(sb.current))
    \o <<Stmt("collect", "power", "minutes", Avg60(sb.power)),
         Stmt("collect", "voltage", "minutes", Avg60(sb.voltage)),
         Stmt("collect", "current", "minutes", Avg60(sb.current)),
         Stmt("clear", "power", "seconds", 0),
         Stmt("clear", "voltage", "seconds", 0),
         Stmt("clear", "current", "seconds", 0)>>

\* C. Update HOURS: the body of the test on minBuffer
HourStmts(mb) ==
    UpdateStmts("power", "hours", Avg60(mb.power))
    \o UpdateStmts("voltage", "hours", Avg60(mb.voltage))
    \o UpdateStmts("current", "hours", Avg60(mb.current))
    \o <<Stmt("clear", "power", "minutes", 0),
         Stmt("clear", "voltage", "minutes", 0),
         Stmt("clear", "current", "minutes", 0)>>

\* What a statement of the gate leaves alone
StmtFrame ==
    UNCHANGED <<variant, seed, clock, ticks, clicks, lastSecondUpdate,
                currentMode, currentTimeRange, chart, last, caught, escaped,
                timerOn, secPushes, lastPushAt, lastThrow, ui, torn, gen, seen>>

\* The start of a tick: everything up to the test of the gate, and
\* lastSecondUpdate = Date.now() when the gate is open
BeginUpdateTimeTs(period, rv, bound) ==
    /\ variant = "ts"
    /\ timerOn
    /\ CallStackEmpty
    /\ ticks < bound
    /\ LET t == TickTime(period)
           sim == SimulateTs(t, rv)
           gate == GateOpen(t, lastSecondUpdate)
       IN /\ clock' = t
          /\ ticks' = ticks + 1
          /\ last' = sim
          /\ seen' = Observed(seen, sim.cycleIndex)
          /\ lastThrow' = "none"
          /\ lastSecondUpdate' = IF gate THEN t ELSE lastSecondUpdate
          /\ lastPushAt' = IF gate THEN t ELSE lastPushAt
          /\ secPushes' = IF gate THEN secPushes + 1 ELSE secPushes
          /\ pc' = IF gate THEN GateStmts(sim) ELSE <<>>
          /\ secTotal' = IF gate THEN Totalled(secTotal, sim) ELSE secTotal
    /\ UNCHANGED <<variant, seed, clicks, chartData, secBuffer, minBuffer,
                   currentMode, currentTimeRange, chart, caught, escaped,
                   timerOn, minPushes, hourPushes, pushLog, ui, torn, gen>>

\* The next statement of the running tick
StepUpdateTimeTs ==
    /\ variant = "ts"
    /\ pc # <<>>
    /\ LET st == Head(pc)
       IN CASE st.op = "push" ->
                 /\ chartData' = [chartData EXCEPT ![st.mode][st.range] = Append(@, st.value)]
                 /\ pushLog' = Logged(pushLog, st.mode, st.range, st.value)
                 /\ pc' = Tail(pc)
                 /\ UNCHANGED <<secBuffer, minBuffer, minPushes, hourPushes, secTotal>>
            [] st.op = "shift" ->
                 /\ chartData' = [chartData EXCEPT ![st.mode][st.range] = Tail(@)]
                 /\ pc' = Tail(pc)
                 /\ UNCHANGED <<secBuffer, minBuffer, minPushes, hourPushes, pushLog, secTotal>>
            [] st.op = "collect" ->
                 /\ secBuffer' = IF st.range = "seconds"
                                  THEN [secBuffer EXCEPT ![st.mode] = Append(@, st.value)]
                                  ELSE secBuffer
                 /\ minBuffer' = IF st.range = "minutes"
                                  THEN [minBuffer EXCEPT ![st.mode] = Append(@, st.value)]
                                  ELSE minBuffer
                 /\ pc' = Tail(pc)
                 /\ UNCHANGED <<chartData, minPushes, hourPushes, pushLog, secTotal>>
            [] st.op = "clear" ->
                 /\ secBuffer' = IF st.range = "seconds"
                                  THEN [secBuffer EXCEPT ![st.mode] = <<>>]
                                  ELSE secBuffer
                 /\ minBuffer' = IF st.range = "minutes"
                                  THEN [minBuffer EXCEPT ![st.mode] = <<>>]
                                  ELSE minBuffer
                 /\ pc' = Tail(pc)
                 /\ UNCHANGED <<chartData, minPushes, hourPushes, pushLog, secTotal>>
            [] st.op = "ifMinutes" ->
                 /\ pc' = IF Fires(secBuffer) THEN MinuteStmts(secBuffer) \o Tail(pc)
                          ELSE Tail(pc)
                 /\ minPushes' = IF Fires(secBuffer) THEN minPushes + 1 ELSE minPushes
                 /\ UNCHANGED <<chartData, secBuffer, minBuffer, hourPushes, pushLog, secTotal>>
            [] OTHER ->
                 /\ pc' = IF Fires(minBuffer) THEN HourStmts(minBuffer) \o Tail(pc)
                          ELSE Tail(pc)
                 /\ hourPushes' = IF Fires(minBuffer) THEN hourPushes + 1 ELSE hourPushes
                 /\ secTotal' = IF Fires(minBuffer) THEN [m \in SingleModes |-> 0]
                                ELSE secTotal
                 /\ UNCHANGED <<chartData, secBuffer, minBuffer, minPushes, pushLog>>
    /\ StmtFrame

----------------------------------------------------------------------------
\* generateDenseData round by round

\* What generateDenseData leaves alone
DenseFrame ==
    UNCHANGED <<variant, seed, clock, ticks, clicks, lastSecondUpdate, chartData,
                secBuffer, minBuffer, currentMode, currentTimeRange, chart, last,
                caught, escaped, timerOn, secPushes, minPushes, hourPushes,
                lastPushAt, lastThrow, pushLog, ui, pc, torn, secTotal, seen>>

\* One round of the for loop with the two values Math.random() returns
DenseLoop(r1, r2) ==
    /\ ~gen.returned
    /\ gen.i < gen.points
    /\ LET val == DenseStep(gen.val, gen.min, gen.max, r1, r2)
       IN gen' = [gen EXCEPT !.val = val, !.i = gen.i + 1, !.len = gen.len + 1,
                             !.newest = ToFixed2(val, gen.q)]
    /\ DenseFrame

\* The end of the loop: return data
DenseReturn ==
    /\ ~gen.returned
    /\ gen.i >= gen.points
    /\ gen' = [gen EXCEPT !.returned = TRUE]
    /\ DenseFrame

----------------------------------------------------------------------------
\* Short runs, every input free
TickTs == \E lag \in Lags, rv \in DrawChoices, thr \in {"none", "dom", "chartGate", "chartEnd"} :
              UpdateTimeTs(TickPeriod("ts"), lag, rv, thr, MaxTicks)
TickJs1 == \E rv \in DrawChoices, thr \in {"none", "dom", "chart"} :
               UpdateTimeJs1(TickPeriod("js1"), rv, thr, MaxTicks)
TickJs3 == \E rv \in DrawChoices, thr \in {"none", "dom"} :
               UpdateTimeJs3(TickPeriod("js3"), rv, thr, MaxTicks)
ClickMode == \E m \in Modes : ModeClick(m)
ClickRange == \E r \in Ranges : TimeRangeClick(r)

Next == TickTs \/ TickJs1 \/ TickJs3 \/ ClickMode \/ ClickRange

Spec == Init /\ [][Next]_vars

\* One or two ticks at chosen timestamps with extreme random draws
SimInit == InitWith(Variants, {3}, SimTimes)
SimTickTs == \E rv \in SimDraws : UpdateTimeTs(TickPeriod("ts"), 0, rv, "none", SimTicks)
SimTickJs1 == \E rv \in SimDraws : UpdateTimeJs1(TickPeriod("js1"), rv, "none", SimTicks)
SimTickJs3 == \E rv \in SimDraws : UpdateTimeJs3(TickPeriod("js3"), rv, "none", SimTicks)
SimNext == SimTickTs \/ SimTickJs1 \/ SimTickJs3
SimSpec == SimInit /\ [][SimNext]_vars

\* One minute of ticks with Math.random() following the tape
MidInit == InitWith({"ts", "js1"}, Seeds, {Epoch + 3000})
MidTickTs == UpdateTimeTs(TickPeriod("ts"), 0, TapeDraws(seed, ticks), "none", MidTicks)
MidTickJs1 == UpdateTimeJs1(TickPeriod("js1"), TapeDraws(seed, ticks), "none", MidTicks)
MidNext == MidTickTs \/ MidTickJs1
MidSpec == MidInit /\ [][MidNext]_vars

\* One hour of main.ts in a background tab: the timer is throttled to one
\* tick per second; Math.random() follows the tape
LongInit == InitWith({"ts"}, {3}, {Epoch + 3000})
LongTickTs == UpdateTimeTs(ThrottledPeriod, 0, TapeDraws(seed, ticks), "none", LongTicks)
LongNext == LongTickTs
LongSpec == LongInit /\ [][LongNext]_vars

\* The same hour with a click on the segmented controls at any moment
LongClickNext == LongTickTs \/ ClickMode \/ ClickRange
LongClickSpec == LongInit /\ [][LongClickNext]_vars

\* A minute of main.ts in a background tab, statement by statement, with a
\* click on any control whenever the page lets a handler start
StepInit == InitWith({"ts"}, {3}, {Epoch + 3000})
StepTickTs == BeginUpdateTimeTs(ThrottledPeriod, TapeDraws(seed, ticks), StepTicks)
StepNext ==
    \/ StepTickTs
    \/ StepUpdateTimeTs
    \/ ClickMode
    \/ ClickRange
    \/ StartClick
    \/ ResetClick
    \/ CancelClick
    \/ ConfirmClick
StepSpec == StepInit /\ [][StepNext]_vars

\* One full cycle of main.ts on its 200 ms timer with Math.random() following
\* the tape and a click on any control at any moment between ticks
UiInit == InitWith({"ts"}, Seeds, {Epoch + 3000})
UiTickTs == UpdateTimeTs(TickPeriod("ts"), 0, TapeDraws(seed, ticks), "none", UiTicks)
UiNext ==
    \/ UiTickTs
    \/ ClickMode
    \/ ClickRange
    \/ StartClick
    \/ ResetClick
    \/ CancelClick
    \/ ConfirmClick
UiSpec == UiInit /\ [][UiNext]_vars

\* A call of generateDenseData with Math.random() at its extremes
DenseInit ==
    /\ PageLoaded({"ts"}, {3}, {Epoch + 3000})
    /\ gen \in DenseCalls
DenseRound == \E d \in DenseDraws : DenseLoop(d[1], d[2])
DenseNext == DenseRound \/ DenseReturn
DenseSpec == DenseInit /\ [][DenseNext]_vars

\* The second script of main.js from the second before a ROTATE window to
\* the second after it, the timer at every phase of the window
RotateTimes ==
    {Epoch + 14000 + 100 * k : k \in 0..9}
    \cup {Epoch + 14001, Epoch + 14499, Epoch + 14501, Epoch + 14999}
RotateInit == InitWith({"js3"}, Seeds, RotateTimes)
RotateTickJs3 == UpdateTimeJs3(TickPeriod("js3"), TapeDraws(seed, ticks), "none", RotateTicks)
RotateNext == RotateTickJs3
RotateSpec == RotateInit /\ [][RotateNext]_vars

\* A few ticks of main.ts and of the first script of main.js, each pushing,
\* with the buttons and the modal
ButtonInit == InitWith({"ts", "js1"}, {3}, {Epoch + 3000})
ButtonTickTs == UpdateTimeTs(ThrottledPeriod, 0, TapeDraws(seed, ticks), "none", ButtonTicks)
ButtonTickJs1 == UpdateTimeJs1(TickPeriod("js1"), TapeDraws(seed, ticks), "none", ButtonTicks)
ButtonNext ==
    \/ ButtonTickTs
    \/ ButtonTickJs1
    \/ StartClick
    \/ ResetClick
    \/ CancelClick
    \/ ConfirmClick
ButtonSpec == ButtonInit /\ [][ButtonNext]_vars

----------------------------------------------------------------------------
\* Properties

CycleDurationOf(v) == IF v = "js3" THEN CycleDurationJs3 ELSE CycleDurationTs
StateCountOf(v) == IF v = "js3" THEN StateCountJs3 ELSE StateCountTs

\* The arithmetic mean of a non-empty sequence
MeanOf(s) == SeqSum(s) \div Len(s)

\* What a series that started as init holds after the values of log were
\* pushed into it first in, first out
Shifted(init, log) ==
    LET n == Len(log)
        cap == Len(init)
    IN IF n >= cap THEN SubSeq(log, n - cap + 1, n)
       ELSE SubSeq(init, n + 1, cap) \o log

\* C1: in main.ts every single-line series keeps its capacity in every state
\* between callbacks: 60 values in the seconds and minutes series and 25 in
\* the hours series of power, voltage and current, whatever ticks and clicks
\* came before.
C1_SeriesKeepCapacity ==
    variant = "ts" =>
        \A m \in SingleModes :
            /\ Len(chartData[m]["seconds"]) = SecondsPoints
            /\ Len(chartData[m]["minutes"]) = MinutesPoints
            /\ Len(chartData[m]["hours"]) = HoursPoints

C1_Witness ==
    /\ variant = "ts"
    /\ hourPushes >= 1
    /\ minPushes >= 1
    /\ currentMode # "power"

\* C2: in main.ts the 60th seconds-level push since the last reset appends
\* exactly one minutes-level value per metric, the mean of those 60 inputs,
\* and empties secBuffer; fewer than 60 pushes append nothing.
C2_MinuteAggregation ==
    (variant = "ts" /\ secPushes < MaxLog) =>
        /\ minPushes = secPushes \div FanIn
        /\ \A m \in SingleModes :
            /\ Len(pushLog[m]["seconds"]) = secPushes
            /\ Len(pushLog[m]["minutes"]) = minPushes
            /\ secBuffer[m] = SubSeq(pushLog[m]["seconds"], FanIn * minPushes + 1, secPushes)
            /\ Len(secBuffer[m]) < FanIn
            /\ \A j \in 1..minPushes :
                   pushLog[m]["minutes"][j] =
                       MeanOf(SubSeq(pushLog[m]["seconds"], FanIn * (j - 1) + 1, FanIn * j))
            /\ SubSeq(chartData[m]["minutes"], MinutesPoints - minPushes + 1, MinutesPoints)
                   = pushLog[m]["minutes"]

C2_Witness ==
    /\ variant = "ts"
    /\ secPushes = FanIn
    /\ minPushes = 1
    /\ secBuffer = EmptyBuffer

\* C3: in main.ts every 60 minutes-level samples collected in minBuffer give
\* exactly one hours-level sample per metric, their mean, pushed into the
\* hours series, and minBuffer is emptied; fewer than 60 append nothing.
C3_HourAggregation ==
    (variant = "ts" /\ minPushes < MaxLog) =>
        /\ hourPushes = minPushes \div FanIn
        /\ \A m \in SingleModes :
            /\ Len(pushLog[m]["minutes"]) = minPushes
            /\ Len(pushLog[m]["hours"]) = hourPushes
            /\ minBuffer[m] = SubSeq(pushLog[m]["minutes"], FanIn * hourPushes + 1, minPushes)
            /\ Len(minBuffer[m]) < FanIn
            /\ \A j \in 1..hourPushes :
                   pushLog[m]["hours"][j] =
                       MeanOf(SubSeq(pushLog[m]["minutes"], FanIn * (j - 1) + 1, FanIn * j))
            /\ SubSeq(chartData[m]["hours"], HoursPoints - hourPushes + 1, HoursPoints)
                   = pushLog[m]["hours"]

C3_Witness ==
    /\ variant = "ts"
    /\ hourPushes = 1
    /\ minBuffer = EmptyBuffer
    /\ secPushes = FanIn * FanIn

\* C4: a push is first in, first out: every series holds its initial values
\* minus the oldest ones followed by the pushed values in arrival order, and
\* once as many values as its capacity were pushed it holds exactly the last
\* ones pushed and no initial value.
C4_Fifo ==
    variant \in {"ts", "js1"} =>
        LET init == InitChartData(seed)
        IN \A m \in SingleModes : \A r \in Ranges :
               Len(pushLog[m][r]) < MaxLog =>
                   chartData[m][r] = Shifted(init[m][r], pushLog[m][r])

C4_Witness ==
    /\ variant = "ts"
    /\ Len(pushLog["voltage"]["seconds"]) = SecondsPoints + 2
    /\ chartData["voltage"]["seconds"] =
           SubSeq(pushLog["voltage"]["seconds"], 3, SecondsPoints + 2)

\* C5 as stated: with one tick every 200 ms and no tick failing, exactly one
\* seconds-level push happens every 5 ticks.
C5_OnePushEveryFiveTicks ==
    (variant = "ts" /\ caught = 0) => secPushes = (ticks + 4) \div 5

\* C5, amended: a tick of main.ts that reaches the gate pushes exactly when
\* at least 1000 ms passed since lastSecondUpdate, and then sets
\* lastSecondUpdate to a clock reading not before the gate's; two pushes are
\* at least 1000 ms apart, so at most one push happens in 5 ticks.
C5_GatedPush ==
    /\ [](variant = "ts" => secPushes <= (ticks + 4) \div 5)
    /\ [][(variant = "ts" /\ ticks' = ticks + 1 /\ lastThrow' # "dom") =>
             /\ (secPushes' = secPushes + 1) <=> (clock' - lastSecondUpdate >= GateMs)
             /\ secPushes' \in {secPushes, secPushes + 1}
             /\ secPushes' = secPushes => lastSecondUpdate' = lastSecondUpdate
             /\ secPushes' = secPushes + 1 =>
                    /\ lastSecondUpdate' >= clock'
                    /\ secPushes >= 1 => clock' - lastPushAt >= GateMs]_vars

C5_Witness ==
    /\ variant = "ts"
    /\ ticks = 6
    /\ secPushes = 2
    /\ lastPushAt = clock

\* C6: the setpoint before noise is a function of the timestamp alone and it
\* is the table: index floor(nowMs / 4000) mod 5 gives (0,0,0), (0.8,0,0),
\* (-0.5,0,0), (0,-0.7,0), (0,0,0.8*sin(nowMs/500)), whatever ticks came before.
C6_Table(nowMs) ==
    LET index == (nowMs \div 4000) % 5
    IN IF index = 0 THEN <<0, 0, 0>>
       ELSE IF index = 1 THEN <<800000, 0, 0>>
       ELSE IF index = 2 THEN <<-500000, 0, 0>>
       ELSE IF index = 3 THEN <<0, -700000, 0>>
       ELSE <<0, 0, 800 * SinMilli(nowMs)>>

C6_SetpointIsTable ==
    (variant \in {"ts", "js1"} /\ last.valid) =>
        <<last.set.drive, last.set.strafe, last.set.turn>> = C6_Table(last.nowMs)

C6_Witness ==
    /\ variant = "ts"
    /\ ticks = 2
    /\ last.cycleIndex = 4
    /\ last.set.turn # 0

\* The command of the IDLE state: index 0 and every axis within 0.05 of 0
IdleCommand ==
    /\ last.cycleIndex = 0
    /\ Abs(last.cmd.drive) <= 50000
    /\ Abs(last.cmd.strafe) <= 50000
    /\ Abs(last.cmd.turn) <= 50000

\* C7 as stated: at now = k * cycleDurationMs, for every k, the cycle index
\* is 0 and drive, strafe and turn are within 0.05 of 0.
C7_IdleAtEveryMultiple ==
    (last.valid /\ last.nowMs % CycleDurationOf(variant) = 0) => IdleCommand

\* C7, amended: at now = k * cycleDurationMs the cycle index is k mod
\* stateCount; it is 0, with drive, strafe and turn within 0.05 of 0, when k
\* is a multiple of stateCount.
C7_IdleAtFullCycles ==
    /\ (last.valid /\ last.nowMs % CycleDurationOf(variant) = 0) =>
           last.cycleIndex = (last.nowMs \div CycleDurationOf(variant)) % StateCountOf(variant)
    /\ (last.valid /\ last.nowMs % (CycleDurationOf(variant) * StateCountOf(variant)) = 0) =>
           IdleCommand

C7_Witness ==
    /\ variant = "ts"
    /\ last.valid
    /\ last.nowMs % (CycleDurationTs * StateCountTs) = 0
    /\ last.cmd.drive # 0

\* C8: in every variant the four normalised wheel values have magnitude at
\* most 1.0.
C8_WheelsWithinOne ==
    last.valid => \A w \in Wheels : Abs(last.wheels[w]) <= 10000

C8_Witness ==
    /\ variant = "ts"
    /\ last.valid
    /\ \E w \in Wheels : Abs(last.wheels[w]) = 10000

\* C9: the simulated voltage is 24.8 - 1.5 * (|drive| + |strafe|) plus noise
\* of at most 0.05, and it lies in the band of the voltage chart, 20 V to 24 V.
C9_VoltageInBand ==
    (variant \in {"ts", "js1"} /\ last.valid) =>
        /\ Abs(2 * (last.voltage - 24800000)
               + 3 * (Abs(last.cmd.drive) + Abs(last.cmd.strafe))) <= 2 * 50000
        /\ last.voltage >= ModeMin("voltage")
        /\ last.voltage <= ModeMax("voltage")

\* C10: every exception raised during a tick is caught inside updateTime,
\* and the recurring timer stays registered.
C10_ExceptionsCaught ==
    /\ escaped = 0
    /\ timerOn

C12_ClicksDoNotChangeMotion ==
    (variant = "ts" /\ last.valid) =>
        LET nowMs == Epoch + 3000 + TickPeriod("ts") * (ticks - 1)
            rv == TapeDraws(seed, ticks - 1)
            cmd == AddNoise(MotionSetpointTs(nowMs), rv, 50000)
            el == ElectricalTs(cmd, rv)
        IN /\ clock = nowMs
           /\ last.nowMs = nowMs
           /\ last.cycleIndex = CycleIndexTs(nowMs)
           /\ last.cmd = cmd
           /\ last.voltage = el.voltage
           /\ last.current = el.current
           /\ last.power = el.power

C12_Witness ==
    /\ variant = "ts"
    /\ isRunning
    /\ pendingAction = "reset"
    /\ currentMode = "torque"
    /\ currentTimeRange = "hours"
    /\ last.valid
    /\ last.cycleIndex = 1

\* C13: in main.ts the power sample of a tick is the product of the voltage
\* and current samples of that tick, and so is every triple pushed together
\* into the power, voltage and current seconds series.
C13_PowerIsProduct ==
    (variant = "ts" /\ last.valid) =>
        /\ last.power = FixMul(last.voltage, last.current)
        /\ \A j \in 1..Len(pushLog["power"]["seconds"]) :
               pushLog["power"]["seconds"][j] =
                   FixMul(pushLog["voltage"]["seconds"][j], pushLog["current"]["seconds"][j])
        /\ secPushes >= 1 =>
               chartData["power"]["seconds"][SecondsPoints] =
                   FixMul(chartData["voltage"]["seconds"][SecondsPoints],
                          chartData["current"]["seconds"][SecondsPoints])

C13_Witness ==
    /\ variant = "ts"
    /\ secPushes = 3
    /\ lastPushAt = clock
    /\ chartData["power"]["seconds"][SecondsPoints] = last.power
    /\ last.cycleIndex = 1

\* C14: in every variant and every cycle state each of drive, strafe and
\* turn after noise is within 0.05 of its setpoint before noise.
C14_NoiseWithinBound ==
    last.valid =>
        /\ Abs(last.cmd.drive - last.set.drive) <= 50000
        /\ Abs(last.cmd.strafe - last.set.strafe) <= 50000
        /\ Abs(last.cmd.turn - last.set.turn) <= 50000

C14_Witness ==
    /\ variant = "js3"
    /\ last.valid
    /\ last.cycleIndex = 5
    /\ last.cmd.drive - last.set.drive = -50000
    /\ last.cmd.strafe - last.set.strafe = 49900
    /\ last.cmd.turn - last.set.turn = -50000

\* C15: generateDenseData returns exactly `points` values (60 or 25) and
\* every value it returns lies within [min, max], whatever Math.random()
\* returns.
C15_DenseDataBounded ==
    /\ gen.len = gen.i
    /\ gen.i <= gen.points
    /\ gen.returned => gen.len = gen.points
    /\ gen.len >= 1 => (gen.min <= gen.newest /\ gen.newest <= gen.max)

C15_Witness ==
    /\ gen.returned
    /\ gen.points = HoursPoints
    /\ gen.len = HoursPoints
    /\ gen.newest = gen.min

\* C16: in main.ts the RPM shown for a wheel of normalised value v is
\* floor(|v| * 4000) plus a noise term in 0..49 when v is not 0 and exactly
\* 0 when v is 0, and the average shown is the floor of the mean of the four.
C16_WheelRpm ==
    (variant = "ts" /\ last.valid) =>
        /\ \A w \in Wheels :
               LET base == (Abs(last.wheels[w]) * 2) \div 5
               IN IF last.wheels[w] = 0 THEN last.rpm[w] = 0
                  ELSE last.rpm[w] - base \in 0..49
        /\ 4 * last.avgRPM <= last.rpm.FL + last.rpm.FR + last.rpm.RL + last.rpm.RR
        /\ 4 * last.avgRPM + 3 >= last.rpm.FL + last.rpm.FR + last.rpm.RL + last.rpm.RR

C16_Witness ==
    /\ variant = "ts"
    /\ ticks = 2
    /\ last.valid
    /\ last.wheels.FL # 0
    /\ last.rpm.FL = (Abs(last.wheels.FL) * 2) \div 5 + 49
    /\ (last.rpm.FL + last.rpm.FR + last.rpm.RL + last.rpm.RR) % 4 # 0

\* C17: in main.ts, after every tick the three arrays of secBuffer have the
\* same length in 0..59 and so have the three of minBuffer; an aggregation
\* fires in the tick that brings its buffer from 59 to 60 values, never
\* with more, and leaves the buffer empty.
C17_BuffersInStep ==
    /\ [](variant = "ts" =>
             \A m \in SingleModes :
                 /\ Len(secBuffer[m]) = Len(secBuffer["power"])
                 /\ Len(secBuffer[m]) \in 0..(FanIn - 1)
                 /\ Len(minBuffer[m]) = Len(minBuffer["power"])
                 /\ Len(minBuffer[m]) \in 0..(FanIn - 1))
    /\ [][variant = "ts" =>
             \A m \in SingleModes :
                 /\ minPushes' # minPushes =>
                        (Len(secBuffer[m]) = FanIn - 1 /\ secBuffer'[m] = <<>>)
                 /\ hourPushes' # hourPushes =>
                        (Len(minBuffer[m]) = FanIn - 1 /\ minBuffer'[m] = <<>>)
                 /\ (secPushes' # secPushes /\ minPushes' = minPushes) =>
                        Len(secBuffer'[m]) = Len(secBuffer[m]) + 1
                 /\ (minPushes' # minPushes /\ hourPushes' = hourPushes) =>
                        Len(minBuffer'[m]) = Len(minBuffer[m]) + 1]_vars

C17_Witness ==
    /\ variant = "ts"
    /\ Len(secBuffer["voltage"]) = FanIn - 1
    /\ Len(minBuffer["current"]) = FanIn - 1

\* C18: in main.ts the two stages cascade within one tick: the tick of the
\* 3600th seconds-level push appends the 60th minutes-level value and, in
\* the same tick, exactly one hours-level value, the mean of the 60
\* minutes-level values and so (up to rounding) of the 3600 seconds-level
\* inputs, and leaves secBuffer and minBuffer empty.
C18_Cascade ==
    [][(variant = "ts" /\ hourPushes' # hourPushes) =>
          /\ hourPushes' = hourPushes + 1
          /\ secPushes' = secPushes + 1
          /\ secPushes' = FanIn * FanIn * hourPushes'
          /\ minPushes' = minPushes + 1
          /\ minPushes' = FanIn * hourPushes'
          /\ \A m \in SingleModes :
                LET minute == (SeqSum(secBuffer[m]) + SampleOf(last', m)) \div FanIn
                    hour == (SeqSum(minBuffer[m]) + minute) \div FanIn
                    total == secTotal[m] + SampleOf(last', m) \div ScaleOf(m)
                IN /\ Len(secBuffer[m]) = FanIn - 1
                   /\ Len(minBuffer[m]) = FanIn - 1
                   /\ chartData'[m]["minutes"] = Append(Tail(chartData[m]["minutes"]), minute)
                   /\ chartData'[m]["hours"] = Append(Tail(chartData[m]["hours"]), hour)
                   /\ Abs(hour \div ScaleOf(m) - total \div (FanIn * FanIn)) <= 2
                   /\ secBuffer'[m] = <<>>
                   /\ minBuffer'[m] = <<>>]_vars

C18_Witness ==
    /\ variant = "ts"
    /\ ticks = FanIn * FanIn
    /\ lastPushAt = clock
    /\ hourPushes = 1
    /\ minPushes = FanIn
    /\ chartData["power"]["hours"][HoursPoints] = pushLog["power"]["hours"][1]
    /\ secTotal["power"] = 0

\* C19: in main.ts a tick that throws before the 1-second gate leaves every
\* series, secBuffer, minBuffer and lastSecondUpdate as they were, and the
\* first later tick that gets to the gate pushes exactly when at least
\* 1000 ms have passed since lastSecondUpdate.
C19_BadTickSkipped ==
    /\ [][(variant = "ts" /\ ticks' = ticks + 1 /\ lastThrow' = "dom") =>
             /\ chartData' = chartData
             /\ secBuffer' = secBuffer
             /\ minBuffer' = minBuffer
             /\ lastSecondUpdate' = lastSecondUpdate
             /\ caught' = caught + 1
             /\ timerOn']_vars
    /\ [][(variant = "ts" /\ ticks' = ticks + 1 /\ lastThrow = "dom" /\ lastThrow' # "dom") =>
             /\ (secPushes' = secPushes + 1) <=> (clock' - lastSecondUpdate >= GateMs)
             /\ secPushes' = secPushes + 1 =>
                    \A m \in SingleModes :
                        /\ chartData'[m]["seconds"] =
                               Append(Tail(chartData[m]["seconds"]), SampleOf(last', m))
                        /\ Len(secBuffer'[m]) = (Len(secBuffer[m]) + 1) % FanIn]_vars

C19_Witness ==
    /\ variant = "ts"
    /\ ticks = 2
    /\ caught = 1
    /\ lastThrow = "none"
    /\ secPushes = 1
    /\ lastPushAt = clock

\* C20: in main.ts, with a tick every 200 ms, the ticks observe the states
\* in the order IDLE, FWD, BWD, LEFT, ROT, IDLE: the index a tick observes is
\* the one of the tick before or the next one modulo 5, and a state whose
\* first tick was observed is observed by exactly 20 consecutive ticks
\* (the state the page loads in is observed from the load on: 5 ticks when
\* the page loads 3000 ms into it).
C20_StatesInOrder ==
    variant = "ts" =>
        /\ seen.index \in 0..(StateCountTs - 1)
        /\ last.valid => (seen.index = last.cycleIndex /\ seen.run >= 1)
        /\ seen.changes >= 1 => seen.index = (seen.before + 1) % StateCountTs
        /\ seen.run <= 20
        /\ seen.changes >= 2 => seen.beforeRun = 20
        /\ seen.changes = 1 =>
               seen.beforeRun = (CycleDurationTs - ((Epoch + 3000) % CycleDurationTs)) \div 200

C20_Witness ==
    /\ variant = "ts"
    /\ seen.changes = 5
    /\ seen.index = 0
    /\ seen.before = 4
    /\ seen.beforeRun = 20
    /\ seen.run = 16

\* C21: pendingAction is non-null exactly when the confirmation modal is
\* shown, after any sequence of Start/Stop, Reset, Confirm and Cancel clicks;
\* ticks and the clicks on the chart controls change neither.
C21_PendingIffShown ==
    /\ []((pendingAction # "none") <=> modalShown)
    /\ [][(\/ ticks' # ticks
           \/ currentMode' # currentMode
           \/ currentTimeRange' # currentTimeRange
           \/ chart' # chart) =>
             UNCHANGED <<pendingAction, modalShown>>]_vars

C21_Witness ==
    /\ variant = "ts"
    /\ isRunning
    /\ ran = Ran("reset", "none")
    /\ pendingAction = "reset"
    /\ modalShown
    /\ ticks >= 2

\* C22: a Confirm click calls the pending action (the one requested last)
\* once and closes the modal, and calls nothing when none is pending; a Cancel
\* click closes the modal, calls nothing and leaves isRunning and the Start
\* button as they were; a prompt opened over another replaces its action.
C22_ConfirmRunsLatestOnce ==
    [][ran' # ran =>
          /\ ran'.by = "confirm" =>
                /\ ran'.action = pendingAction
                /\ pendingAction' = "none" /\ ~modalShown'
                /\ pendingAction = "start" => isRunning'
                /\ pendingAction = "stop" => ~isRunning'
                /\ pendingAction \in {"none", "reset"} => UNCHANGED <<isRunning, btnStart>>
          /\ ran'.by = "cancel" =>
                /\ ran'.action = "none"
                /\ pendingAction' = "none" /\ ~modalShown'
                /\ UNCHANGED <<isRunning, btnStart>>
          /\ ran'.by = "start" =>
                /\ ran'.action = "none"
                /\ pendingAction' = (IF isRunning THEN "stop" ELSE "start")
                /\ UNCHANGED <<isRunning, btnStart>>
          /\ ran'.by = "reset" =>
                /\ ran'.action = "none"
                /\ pendingAction' = "reset"
                /\ UNCHANGED <<isRunning, btnStart>>]_vars

C22_Witness ==
    /\ variant = "ts"
    /\ ran = Ran("confirm", "reset")
    /\ isRunning
    /\ btnStart.text = "Stop Program"
    /\ pendingAction = "none"
    /\ ~modalShown

\* C23: isRunning changes only in the confirmation of a Start/Stop prompt,
\* every such confirmation toggles it, and once one was confirmed isRunning
\* holds exactly when the Start button reads 'Stop Program' and carries the
\* class 'stopped' (until then the button is as the markup has it and
\* isRunning is false).
C23_RunningFollowsConfirmation ==
    /\ [](IF btnStart.text = "markup"
          THEN ~isRunning /\ btnStart.stopped = "markup"
          ELSE /\ isRunning <=> (btnStart.text = "Stop Program" /\ btnStart.stopped = "yes")
               /\ ~isRunning <=> (btnStart.text = "Start Program" /\ btnStart.stopped = "no"))
    /\ [][isRunning' # isRunning =>
             (ran' # ran /\ ran'.by = "confirm" /\ ran'.action \in {"start", "stop"})]_vars
    /\ [][(ran' # ran /\ ran'.by = "confirm" /\ ran'.action \in {"start", "stop"}) =>
             /\ isRunning' = ~isRunning
             /\ ran'.action = (IF isRunning THEN "stop" ELSE "start")]_vars

C23_Witness ==
    /\ variant = "ts"
    /\ ran = Ran("confirm", "stop")
    /\ ~isRunning
    /\ btnStart = [text |-> "Start Program", stopped |-> "no"]
    /\ ticks >= 3

\* C24: confirming the 'Reset Digital Twin' prompt clears all current data:
\* after it the aggregation buffers are empty and no series ends with the
\* samples pushed before the reset.
C24_ResetClearsData ==
    [][(ran' # ran /\ ran'.by = "confirm" /\ ran'.action = "reset") =>
          /\ \A m \in SingleModes : secBuffer'[m] = <<>> /\ minBuffer'[m] = <<>>
          /\ \A m \in SingleModes, r \in Ranges :
                 LET n == Len(pushLog[m][r])
                     series == chartData'[m][r]
                 IN n > 0 => SubSeq(series, Len(series) - n + 1, Len(series)) # pushLog[m][r]]_vars

\* C25: a tick of main.ts writes the power, voltage and current series only,
\* whatever mode and range are displayed: each push into the seconds series
\* goes to all three, the minutes and hours series change only in the tick
\* that aggregates, and the torque datasets never change.
C25_TickWritesElectricalOnly ==
    [][/\ chartData'["torque"] = chartData["torque"]
       /\ ticks' # ticks =>
             ((secPushes' = secPushes + 1) <=> GateOpen(clock', lastSecondUpdate))
       /\ \A m \in SingleModes :
             /\ chartData'[m]["seconds"] =
                    (IF secPushes' # secPushes
                     THEN Append(Tail(chartData[m]["seconds"]), SampleOf(last', m))
                     ELSE chartData[m]["seconds"])
             /\ chartData'[m]["minutes"] =
                    (IF minPushes' # minPushes
                     THEN Append(Tail(chartData[m]["minutes"]),
                                 Avg60(Append(secBuffer[m], SampleOf(last', m))))
                     ELSE chartData[m]["minutes"])
             /\ hourPushes' = hourPushes =>
                    chartData'[m]["hours"] = chartData[m]["hours"]
             /\ hourPushes' # hourPushes =>
                    Tail(chartData[m]["hours"]) =
                        SubSeq(chartData'[m]["hours"], 1, HoursPoints - 1)]_vars

C25_Witness ==
    /\ variant = "ts"
    /\ currentMode = "torque"
    /\ currentTimeRange = "minutes"
    /\ chart.mode = "torque"
    /\ secPushes = FanIn
    /\ minPushes = 1
    /\ lastPushAt = clock

\* C26: in main.ts, after any ticks and clicks on the mode and time-range
\* controls, the chart displays the series of (currentMode, currentTimeRange):
\* its datasets are the arrays of that entry of chartData, there are as many
\* labels as values in every displayed dataset, and the y axis has the
\* minimum and maximum of the selected mode.
C26_ChartShowsSelection ==
    variant = "ts" =>
        LET shown == getDatasetForMode(chartData, chart.mode, chart.range)
        IN /\ chart.mode = currentMode
           /\ chart.range = currentTimeRange
           /\ Len(shown) = (IF currentMode = "torque" THEN 4 ELSE 1)
           /\ \A i \in 1..Len(shown) : Len(shown[i]) = chart.labels
           /\ chart.labels = LabelsOf(currentTimeRange)
           /\ chart.min = ModeMin(currentMode)
           /\ chart.max = ModeMax(currentMode)

C26_Witness ==
    /\ variant = "ts"
    /\ currentMode = "torque"
    /\ currentTimeRange = "hours"
    /\ chart.labels = HoursPoints
    /\ chart.min = -500000
    /\ secPushes >= 2

\* C27: in the first script of main.js a tick changes the displayed series
\* only, and only in a single-line mode: the value simulated for the metric
\* currentMode names goes in at the end and the oldest value goes out; every
\* other series is unchanged, and in torque mode nothing changes.
C27_Js1WritesDisplayedOnly ==
    [][(variant = "js1" /\ ticks' = ticks + 1) =>
          /\ chart.mode = currentMode /\ chart.range = currentTimeRange
          /\ chartData'["torque"] = chartData["torque"]
          /\ \A m \in SingleModes, r \in Ranges :
                 IF m = currentMode /\ r = currentTimeRange /\ lastThrow' # "dom"
                 THEN chartData'[m][r] = Append(Tail(chartData[m][r]), SampleOf(last', m))
                 ELSE chartData'[m][r] = chartData[m][r]
          /\ UNCHANGED <<secBuffer, minBuffer, currentMode, currentTimeRange>>]_vars

C27_Witness ==
    /\ variant = "js1"
    /\ ticks >= 2
    /\ lastThrow = "none"
    /\ currentMode = "voltage"
    /\ currentTimeRange = "seconds"
    /\ chartData["voltage"]["seconds"][SecondsPoints] = last.voltage
    /\ last.voltage # 0

====
